---- MODULE Spec2Model ----
(***************************************************************************)
(* Model of the grammatical event classifier (event_classifier.py) and of  *)
(* the passage tagging that drives it (markdown_app.py).                   *)
(*                                                                         *)
(* A parsed sentence (spaCy Doc) is a sequence of tokens.  A token carries *)
(* text, lemma, pos, dep, tag and head (the index of its syntactic head;   *)
(* a ROOT token is its own head).  token.children is derived from head.    *)
(***************************************************************************)
EXTENDS Integers, Sequences, FiniteSets, TLC

VARIABLES
    stative_verbs,            \* self.stative_verbs
    intention_or_goal_verbs,  \* self.intention_or_goal_verbs
    nlp,                      \* self.nlp (the parser the classifier was built with)
    debugging,                \* self.debugging
    arg_text,                 \* is_event: the text argument of the last call
    arg_doc,                  \* is_event: the doc argument of the last call
    outcome,                  \* "idle", "returned" or "raised" (last call)
    result,                   \* the dict returned by the last call
    locals,                   \* is_event's local variables when it returned
    frames,                   \* per thread: the frame of its is_event call
    texts,                    \* extract_events: the texts argument
    batch_pc,                 \* extract_events: "idle", "zip" or "done"
    completed,                \* nlp.pipe: the inputs parsed so far, in the
                              \*   order the worker processes finished them
    yielded,                  \* nlp.pipe: how many docs the zip loop has taken
    events,                   \* extract_events: the events list
    sentences,                \* split_passage: the sentences of the passage
    df,                       \* split_passage: the rows (text, label) it returns
    tagged,                   \* tag_passage: the passage it returns
    passage_pc                \* "idle", "split" or "tagged"

call_vars == <<arg_text, arg_doc, outcome, result, locals>>

batch_vars == <<texts, batch_pc, completed, yielded, events>>

passage_vars == <<sentences, df, tagged, passage_pc>>

vars == <<stative_verbs, intention_or_goal_verbs, nlp, debugging,
          arg_text, arg_doc, outcome, result, locals, frames,
          texts, batch_pc, completed, yielded, events,
          sentences, df, tagged, passage_pc>>

self_fields == <<stative_verbs, intention_or_goal_verbs, nlp, debugging>>

----------------------------------------------------------------------------
(* Bounds *)

\* Tokens in a parsed sentence handed to is_event.
MaxLen == 3

\* is_event calls made by one thread.
MaxCalls == 2

\* Texts in one extract_events batch.
MaxTexts == 3

\* Sentences in one passage.
MaxSents == 3

----------------------------------------------------------------------------
(* Optional values (an argument or local that may be None): None is the   *)
(* empty set and a value v that is present is the set {v}.                 *)

None == {}

Some(v) == {v}

The(opt) == CHOOSE v \in opt : TRUE

NoSublabel == "None"

----------------------------------------------------------------------------
(* The vocabularies set by __init__ *)

StativeVerbs ==
    {"be", "get", "see", "locate", "include", "note", "have", "base", "mean"}

IntentionOrGoalVerbs ==
    {"predict", "indicate", "forecast", "target", "plan", "aim", "intend",
     "expect", "hope", "propose", "commit", "promise", "signal", "project",
     "schedule", "decide", "consider", "believe"}

ActionTags == {"VBD", "VBG", "VBN", "VBP", "VBZ", "VB"}

----------------------------------------------------------------------------
(* Tokens the parser can produce (word forms with their annotations).      *)

Word(t, l, p, d, g) == [text |-> t, lemma |-> l, pos |-> p, dep |-> d, tag |-> g]

RootWords ==
    { Word("go", "go", "VERB", "ROOT", "VB"),
      Word("going", "go", "VERB", "ROOT", "VBG"),
      Word("am", "be", "AUX", "ROOT", "VBP"),
      Word("targeting", "target", "VERB", "ROOT", "VBG"),
      Word("can", "can", "AUX", "ROOT", "MD"),
      Word("park", "park", "NOUN", "ROOT", "NN") }

OtherWords ==
    { Word("will", "will", "AUX", "aux", "MD"),
      Word("Will", "will", "AUX", "aux", "MD"),
      Word("will", "will", "NOUN", "dobj", "NN"),
      Word("go", "go", "VERB", "xcomp", "VB") }

Token(w, h) ==
    [text |-> w.text, lemma |-> w.lemma, pos |-> w.pos, dep |-> w.dep,
     tag |-> w.tag, head |-> h]

\* The tokens that may stand at position i of a sentence of n tokens.
TokensAt(i, n) ==
    { Token(w, i) : w \in RootWords }
      \cup { Token(w, h) : w \in OtherWords, h \in (1..n) \ {i} }

RECURSIVE Ancestor(_, _, _)
\* The token reached from i by following head k times.
Ancestor(doc, i, k) == IF k = 0 THEN i ELSE Ancestor(doc, doc[i].head, k - 1)

\* A dependency parse is a forest: every token reaches a ROOT.
WellFormed(doc) ==
    \A i \in 1..Len(doc) : doc[Ancestor(doc, i, Len(doc))].dep = "ROOT"

RECURSIVE TokenSeqs(_, _)
\* The sequences of k tokens that begin a sentence of n tokens.
TokenSeqs(k, n) ==
    IF k = 0 THEN { <<>> }
    ELSE { Append(s, t) : s \in TokenSeqs(k - 1, n), t \in TokensAt(k, n) }

DocsOfLen(n) == { d \in TokenSeqs(n, n) : WellFormed(d) }

\* The parsed sentences of at most n tokens.
DocsUpTo(n) == UNION { DocsOfLen(k) : k \in 0..n }

\* token.children
children(doc, i) == { j \in 1..Len(doc) : j # i /\ doc[j].head = i }

----------------------------------------------------------------------------
(* is_event: the scan (lines 56-97)                                        *)

verb_data(tok) == <<tok.text, tok.lemma, tok.pos, tok.dep, tok.tag>>

FlagSummary(st) ==
    << <<"Action Verb", st.has_action_verb>>,
       <<"Intention or Goal", st.is_intention_or_goal>>,
       <<"Modal Verb", st.has_modal_verb>>,
       <<"Stative Verb", st.is_stative_verb>> >>

\* InitLocals with has_action_verb wrongly starting out True.
InitLocalsActionTrue ==
    [has_action_verb |-> TRUE, is_intention_or_goal |-> FALSE,
     has_modal_verb |-> FALSE, is_stative_verb |-> FALSE,
     debug_info |-> None, root_children |-> {},
     verbs |-> <<>>, data |-> None]

\* The locals of is_event before the loop (lines 57-66).
InitLocals ==
    [has_action_verb |-> FALSE, is_intention_or_goal |-> FALSE,
     has_modal_verb |-> FALSE, is_stative_verb |-> FALSE,
     debug_info |-> None, root_children |-> {},
     verbs |-> <<>>, data |-> None]

IsVerbOrAux(tok) == tok.pos = "VERB" \/ tok.pos = "AUX"

\* RootUpdate without the 'or token.tag_ == "VB"' of line 87.
RootUpdateLemmaOnly(st, doc, i, stative, intention) ==
    IF doc[i].dep = "ROOT"
    THEN [st EXCEPT
            !.root_children = { doc[j].lemma : j \in children(doc, i) },
            !.has_action_verb = @ \/ doc[i].tag \in ActionTags,
            !.is_stative_verb = @ \/ doc[i].lemma \in stative,
            !.is_intention_or_goal = @ \/ doc[i].lemma \in intention]
    ELSE st

\* Lines 75-88: the updates made for a ROOT verb.
RootUpdate(st, doc, i, stative, intention) ==
    IF doc[i].dep = "ROOT"
    THEN [st EXCEPT
            !.root_children = { doc[j].lemma : j \in children(doc, i) },
            !.has_action_verb = @ \/ doc[i].tag \in ActionTags,
            !.is_stative_verb = @ \/ doc[i].lemma \in stative,
            !.is_intention_or_goal =
                @ \/ doc[i].lemma \in intention \/ doc[i].tag = "VB"]
    ELSE st

\* Line 93: the test made on each token of the nested scan.
IsAttachedModal(tok, root_children) ==
    /\ tok.pos = "AUX"
    /\ tok.dep = "aux"
    /\ tok.tag = "MD"
    /\ tok.text \in root_children

RECURSIVE ModalScan(_, _, _)
\* Lines 91-94: the nested loop over all tokens, from token j on.
ModalScan(st, doc, j) ==
    IF j > Len(doc) THEN st
    ELSE ModalScan(
            IF IsAttachedModal(doc[j], st.root_children)
            THEN [st EXCEPT !.has_modal_verb = TRUE] ELSE st,
            doc, j + 1)

\* Lines 96-97.  debug_info holds the list object verbs itself, so what the
\* caller sees in it is the list as it stands on return.
DebugUpdate(st, dbg) ==
    [st EXCEPT !.data = Some(FlagSummary(st)),
               !.debug_info = IF dbg THEN Some(<<"verbs", FlagSummary(st)>>)
                              ELSE None]

\* LoopBody testing only the outer loop's own token for a modal, with no
\* nested scan of the sentence.
LoopBodyNoRescan(st, doc, i, stative, intention, dbg) ==
    IF IsVerbOrAux(doc[i])
    THEN LET st1 == RootUpdate([st EXCEPT !.verbs = Append(@, verb_data(doc[i]))],
                               doc, i, stative, intention)
         IN DebugUpdate(
                IF IsAttachedModal(doc[i], st1.root_children)
                THEN [st1 EXCEPT !.has_modal_verb = TRUE] ELSE st1,
                dbg)
    ELSE st

\* LoopBody building the summary before the nested scan instead of after.
LoopBodyEarlyDebug(st, doc, i, stative, intention, dbg) ==
    IF IsVerbOrAux(doc[i])
    THEN ModalScan(
            DebugUpdate(
                RootUpdate([st EXCEPT !.verbs = Append(@, verb_data(doc[i]))],
                           doc, i, stative, intention),
                dbg),
            doc, 1)
    ELSE st

\* Lines 70-97: the body of the outer loop for token i.
LoopBody(st, doc, i, stative, intention, dbg) ==
    IF IsVerbOrAux(doc[i])
    THEN DebugUpdate(
            ModalScan(
                RootUpdate([st EXCEPT !.verbs = Append(@, verb_data(doc[i]))],
                           doc, i, stative, intention),
                doc, 1),
            dbg)
    ELSE st

RECURSIVE Scan(_, _, _, _, _, _)
\* Lines 69-97: the outer loop from token i on.
Scan(st, doc, i, stative, intention, dbg) ==
    IF i > Len(doc) THEN st
    ELSE Scan(LoopBody(st, doc, i, stative, intention, dbg),
              doc, i + 1, stative, intention, dbg)

\* The debug_info the caller receives.
ReturnedDebugInfo(st) ==
    IF st.debug_info = None THEN None
    ELSE Some(<<st.verbs, The(st.debug_info)[2]>>)

\* Lines 99-106: the decision.
Decide(st) ==
    IF /\ st.has_action_verb /\ ~st.is_intention_or_goal
       /\ ~st.has_modal_verb /\ ~st.is_stative_verb
    THEN [label |-> "event", sublabel |-> "past_or_current",
          debug_info |-> ReturnedDebugInfo(st)]
    ELSE IF /\ st.has_action_verb /\ st.is_intention_or_goal
            /\ ~st.has_modal_verb /\ ~st.is_stative_verb
    THEN [label |-> "event", sublabel |-> "forecast_or_prediction",
          debug_info |-> ReturnedDebugInfo(st)]
    ELSE [label |-> "non_event", sublabel |-> NoSublabel,
          debug_info |-> ReturnedDebugInfo(st)]

\* The locals of is_event when the loop has ended.
FinalLocals(doc, stative, intention, dbg) ==
    Scan(InitLocals, doc, 1, stative, intention, dbg)

\* is_event on a parsed sentence.
ClassifyDoc(doc, stative, intention, dbg) ==
    Decide(FinalLocals(doc, stative, intention, dbg))

----------------------------------------------------------------------------
(* The parser (spaCy), as far as the classifier uses it.                   *)

Whitespace == {" ", "\n"}

IsBlank(text) == \A k \in 1..Len(text) : text[k] \in Whitespace

NotSpace(c) == c \notin Whitespace

\* The words of a text, whitespace dropped.
WordsOf(text) == SelectSeq(text, NotSpace)

Tok(t, l, p, d, g, h) ==
    [text |-> t, lemma |-> l, pos |-> p, dep |-> d, tag |-> g, head |-> h]

\* The sentences of __main__ (lines 174-178), shortened to their first
\* words, and the question "Will I go", with the annotations the docstrings
\* show for their verbs (lines 48, 133, 142).
SampleWords ==
    { <<"I", "am", "going">>, <<"I", "will", "go">>, <<"I", "am", "at">>,
      <<"We", "are", "targeting">>, <<"Will", "I", "go">> }

ParseWords(ws) ==
    CASE ws = <<"I", "am", "going">> ->
            << Tok("I", "I", "PRON", "nsubj", "PRP", 3),
               Tok("am", "be", "AUX", "aux", "VBP", 3),
               Tok("going", "go", "VERB", "ROOT", "VBG", 3) >>
      [] ws = <<"I", "will", "go">> ->
            << Tok("I", "I", "PRON", "nsubj", "PRP", 3),
               Tok("will", "will", "AUX", "aux", "MD", 3),
               Tok("go", "go", "VERB", "ROOT", "VB", 3) >>
      [] ws = <<"I", "am", "at">> ->
            << Tok("I", "I", "PRON", "nsubj", "PRP", 2),
               Tok("am", "be", "AUX", "ROOT", "VBP", 2),
               Tok("at", "at", "ADP", "prep", "IN", 2) >>
      [] ws = <<"We", "are", "targeting">> ->
            << Tok("We", "we", "PRON", "nsubj", "PRP", 3),
               Tok("are", "be", "AUX", "aux", "VBP", 3),
               Tok("targeting", "target", "VERB", "ROOT", "VBG", 3) >>
      [] ws = <<"Will", "I", "go">> ->
            << Tok("Will", "will", "AUX", "aux", "MD", 3),
               Tok("I", "I", "PRON", "nsubj", "PRP", 3),
               Tok("go", "go", "VERB", "ROOT", "VB", 3) >>
      [] OTHER -> <<>>

\* self.nlp(text) for a string: whitespace carries no VERB/AUX token; a
\* text of whitespace alone parses to one SPACE token.
Parse(text) ==
    IF text # <<>> /\ IsBlank(text)
    THEN << Tok(" ", " ", "SPACE", "dep", "_SP", 1) >>
    ELSE ParseWords(WordsOf(text))

\* The texts handed to is_event: the samples, and blank and empty input.
Spaced(ws) == <<ws[1], " ", ws[2], " ", ws[3]>>

SampleTexts == { Spaced(ws) : ws \in SampleWords } \cup { <<>>, <<" ", " ">> }

----------------------------------------------------------------------------
(* is_event (lines 19-106) *)

\* NeedsParse calling the parser on every call, a doc passed or not.
NeedsParseAlways(text, doc) == TRUE

\* Line 53: the parser is called when no doc was passed.
NeedsParse(text, doc) == doc = None

\* Line 54 with text = None: spaCy rejects an input that is no string, and
\* is_event does not catch what the parser raises.
ParserRaises(text) == text = None

\* The doc the scan runs over.
DocOf(text, doc) ==
    IF NeedsParse(text, doc) THEN Parse(The(text)) ELSE The(doc)

Threads == {"t1", "t2"}

\* CallLocals with the flags and lists kept from the call before, as
\* attributes of the instance would be.
CallLocalsKept(previous) == previous

\* Lines 57-66: every call starts from fresh locals, whatever an earlier
\* call left behind.
CallLocals(previous) == InitLocals

NoFrame == [pc |-> "idle", doc |-> <<>>, i |-> 1, st |-> InitLocals,
            result |-> None, n |-> 0]

\* __init__ (lines 13-17).  markdown_app.py line 12 builds its classifier
\* with debugging=False.
InitSelf ==
    /\ stative_verbs = StativeVerbs
    /\ intention_or_goal_verbs = IntentionOrGoalVerbs
    /\ nlp = "en_core_web_sm"

NoCall ==
    /\ arg_text = None /\ arg_doc = None
    /\ outcome = "idle" /\ result = None /\ locals = None

NoThreads == frames = [t \in Threads |-> NoFrame]

NoBatch ==
    /\ texts = <<>> /\ batch_pc = "idle" /\ completed = <<>>
    /\ yielded = 0 /\ events = <<>>

NoPassage ==
    /\ sentences = <<>> /\ df = <<>> /\ tagged = <<>> /\ passage_pc = "idle"

Init ==
    /\ InitSelf
    /\ debugging \in BOOLEAN
    /\ \/ arg_text = None /\ arg_doc \in {None} \cup { Some(d) : d \in DocsUpTo(MaxLen) }
       \/ arg_text \in { Some(t) : t \in SampleTexts }
          /\ arg_doc \in {None} \cup { Some(Parse(t)) : t \in SampleTexts }
    /\ outcome = "idle"
    /\ result = None
    /\ locals = None
    /\ NoThreads /\ NoBatch /\ NoPassage

\* is_event(text=arg_text, doc=arg_doc)
is_event ==
    /\ outcome = "idle"
    /\ IF NeedsParse(arg_text, arg_doc) /\ ParserRaises(arg_text)
       THEN /\ outcome' = "raised"
            /\ locals' = None
            /\ result' = None
       ELSE /\ outcome' = "returned"
            /\ locals' = Some(FinalLocals(DocOf(arg_text, arg_doc), stative_verbs,
                                          intention_or_goal_verbs, debugging))
            /\ result' = Some(Decide(The(locals')))
    /\ UNCHANGED <<self_fields, arg_text, arg_doc, frames, batch_vars, passage_vars>>

Next == is_event

Spec == Init /\ [][Next]_vars

----------------------------------------------------------------------------
(* extract_events (lines 110-167)                                          *)

\* The texts of the docstring example (line 126).
BatchTexts ==
    { Spaced(<<"I", "am", "going">>), Spaced(<<"I", "will", "go">>),
      Spaced(<<"I", "am", "at">>), <<" ", " ">> }

RECURSIVE TextSeqs(_)
TextSeqs(n) ==
    IF n = 0 THEN { <<>> }
    ELSE { Append(b, t) : b \in TextSeqs(n - 1), t \in BatchTexts }

Batches == UNION { TextSeqs(n) : n \in 0..MaxTexts }

\* Line 160: nlp.pipe(texts, n_process=-1) parses in worker processes that
\* finish in any order, and yields the docs in the order of the texts: its
\* k-th doc is the parse of the k-th text, ready once that parse is done.
PipeReady(done, k) == \E m \in 1..Len(done) : done[m] = k

PipeDoc(batch, k) == Parse(batch[k])

\* EventsAppend putting the new result in front of the list.
EventsPrepend(evs, r) == <<r>> \o evs

\* Line 165: events.append(result)
EventsAppend(evs, r) == Append(evs, r)

\* Lines 163-164: result = self.is_event(doc=doc); result["text"] = text
EventOf(text, doc, stative, intention, dbg) ==
    LET r == ClassifyDoc(doc, stative, intention, dbg)
    IN [label |-> r.label, sublabel |-> r.sublabel,
        debug_info |-> r.debug_info, text |-> text]

\* extract_events is called: line 160-161.
extract_events_call ==
    /\ batch_pc = "idle"
    /\ batch_pc' = "zip"
    /\ events' = <<>>
    /\ yielded' = 0
    /\ completed' = <<>>
    /\ UNCHANGED <<self_fields, call_vars, frames, texts, passage_vars>>

\* A worker process of nlp.pipe finishes the parse of some text.
PipeWorker ==
    /\ batch_pc = "zip"
    /\ \E k \in 1..Len(texts) :
          /\ ~PipeReady(completed, k)
          /\ completed' = Append(completed, k)
    /\ UNCHANGED <<self_fields, call_vars, frames, texts, batch_pc, yielded,
                   events, passage_vars>>

\* One round of the loop of line 162 (lines 162-165).
ZipNext ==
    /\ batch_pc = "zip"
    /\ yielded < Len(texts)
    /\ PipeReady(completed, yielded + 1)
    /\ yielded' = yielded + 1
    /\ events' = EventsAppend(events,
                      EventOf(texts[yielded + 1], PipeDoc(texts, yielded + 1),
                              stative_verbs, intention_or_goal_verbs, debugging))
    /\ UNCHANGED <<self_fields, call_vars, frames, texts, batch_pc, completed,
                   passage_vars>>

\* Line 167: the loop has ended and events is returned.
extract_events_return ==
    /\ batch_pc = "zip"
    /\ yielded = Len(texts)
    /\ batch_pc' = "done"
    /\ UNCHANGED <<self_fields, call_vars, frames, texts, completed, yielded,
                   events, passage_vars>>

InitBatch ==
    /\ InitSelf
    /\ debugging \in BOOLEAN
    /\ NoCall /\ NoThreads /\ NoPassage
    /\ texts \in Batches
    /\ batch_pc = "idle" /\ completed = <<>> /\ yielded = 0 /\ events = <<>>

NextBatch ==
    \/ extract_events_call
    \/ PipeWorker
    \/ ZipNext
    \/ extract_events_return

SpecBatch == InitBatch /\ [][NextBatch]_vars

----------------------------------------------------------------------------
(* markdown_app.py: split_passage and tag_passage (lines 21-59)            *)

\* Sentence texts as split_into_sentences returns them (sent.text keeps the
\* line breaks and blanks that the splitter left inside a sentence span).
SentenceTexts ==
    { Spaced(<<"I", "am", "going">>),
      <<"I", " ", "am", " ", "going", "\n">>,
      <<"I", " ", "am", "\n", "going">>,
      Spaced(<<"I", "will", "go">>),
      <<"Will", " ", "I", " ", "go", " ", "\n">>,
      <<"\n", " ", "I", " ", "am", " ", "at">>,
      Spaced(<<"I", "am", "at">>),
      <<"\n">> }

RECURSIVE SentenceSeqs(_)
SentenceSeqs(n) ==
    IF n = 0 THEN { <<>> }
    ELSE { Append(b, t) : b \in SentenceSeqs(n - 1), t \in SentenceTexts }

Passages == UNION { SentenceSeqs(n) : n \in 0..MaxSents }

\* classifier.is_event(sentence) of lines 33 and 35: text given, no doc.
IsEventOfText(text, stative, intention, dbg) ==
    ClassifyDoc(Parse(text), stative, intention, dbg)

\* Lines 33-38: the label split_passage gives a sentence.
PassageLabel(text, stative, intention, dbg) ==
    IF IsEventOfText(text, stative, intention, dbg).sublabel = "past_or_current"
    THEN "event"
    ELSE IF IsEventOfText(text, stative, intention, dbg).sublabel
                = "forecast_or_prediction"
    THEN "forecast"
    ELSE "non_event"

RECURSIVE LStrip(_, _)
\* str.lstrip(chars)
LStrip(text, chars) ==
    IF text # <<>> /\ Head(text) \in chars THEN LStrip(Tail(text), chars)
    ELSE text

RECURSIVE RStrip(_, _)
\* str.rstrip(chars)
RStrip(text, chars) ==
    IF text # <<>> /\ text[Len(text)] \in chars
    THEN RStrip(SubSeq(text, 1, Len(text) - 1), chars)
    ELSE text

\* str.strip(chars)
Strip(text, chars) == RStrip(LStrip(text, chars), chars)

\* Line 52: row['text'].strip("\n").strip().strip("\n")
RowText(text) == Strip(Strip(Strip(text, {"\n"}), Whitespace), {"\n"})

\* RowIsTagged marking only the rows labelled 'event'.
RowIsTaggedEventOnly(label) == label = "event"

\* Line 53: the rows that get the marker.
RowIsTagged(label) == label = "event" \/ label = "forecast"

\* Lines 52-58: what one row adds to the passage.
RowOutput(row) ==
    IF RowIsTagged(row.label)
    THEN <<"<EVENT>", " ">> \o RowText(row.text) \o <<" ", "</EVENT>", " ">>
            \o <<"\n">>
    ELSE RowText(row.text) \o <<"\n">>

RECURSIVE TagRows(_, _, _)
\* Lines 50-59: the loop over the rows, from row k on.
TagRows(rows, k, acc) ==
    IF k > Len(rows) THEN acc
    ELSE TagRows(rows, k + 1, acc \o RowOutput(rows[k]))

\* split_passage(passage), the passage already split into sentences.
split_passage ==
    /\ passage_pc = "idle"
    /\ df' = [k \in 1..Len(sentences) |->
                [text |-> sentences[k],
                 label |-> PassageLabel(sentences[k], stative_verbs,
                                        intention_or_goal_verbs, debugging)]]
    /\ passage_pc' = "split"
    /\ UNCHANGED <<self_fields, call_vars, frames, batch_vars, sentences, tagged>>

\* tag_passage(split_sentences_df)
tag_passage ==
    /\ passage_pc = "split"
    /\ tagged' = TagRows(df, 1, <<>>)
    /\ passage_pc' = "tagged"
    /\ UNCHANGED <<self_fields, call_vars, frames, batch_vars, sentences, df>>

InitPassage ==
    /\ InitSelf
    /\ debugging = FALSE
    /\ NoCall /\ NoThreads /\ NoBatch
    /\ sentences \in Passages
    /\ df = <<>> /\ tagged = <<>> /\ passage_pc = "idle"

NextPassage == split_passage \/ tag_passage

SpecPassage == InitPassage /\ [][NextPassage]_vars

----------------------------------------------------------------------------
(* Calls on one classifier from several threads.  A thread runs is_event   *)
(* on a parsed sentence one round of the outer loop at a time, so that the *)
(* rounds of different calls interleave; extract_events runs beside them.  *)

\* The parsed sentences the threads classify.
CallDocs == { Parse(t) : t \in SampleTexts }

\* The batch extract_events is given beside the threads' calls.
ThreadedBatch == << Spaced(<<"I", "am", "going">>), Spaced(<<"I", "will", "go">>) >>

\* Lines 53-66: thread t enters is_event(doc=d).
ThreadCall(t) ==
    /\ frames[t].pc \in {"idle", "done"}
    /\ frames[t].n < MaxCalls
    /\ \E d \in CallDocs :
          frames' = [frames EXCEPT ![t] =
                        [pc |-> "loop", doc |-> d, i |-> 1,
                         st |-> CallLocals(frames[t].st),
                         result |-> None, n |-> frames[t].n + 1]]
    /\ UNCHANGED <<self_fields, call_vars, batch_vars, passage_vars>>

\* Lines 69-97: thread t runs one round of the outer loop.
ThreadLoop(t) ==
    /\ frames[t].pc = "loop"
    /\ frames[t].i <= Len(frames[t].doc)
    /\ frames' = [frames EXCEPT
                     ![t].st = LoopBody(frames[t].st, frames[t].doc, frames[t].i,
                                        stative_verbs, intention_or_goal_verbs,
                                        debugging),
                     ![t].i = @ + 1]
    /\ UNCHANGED <<self_fields, call_vars, batch_vars, passage_vars>>

\* Lines 99-106: thread t returns from is_event.
ThreadReturn(t) ==
    /\ frames[t].pc = "loop"
    /\ frames[t].i > Len(frames[t].doc)
    /\ frames' = [frames EXCEPT ![t].result = Some(Decide(frames[t].st)),
                                ![t].pc = "done"]
    /\ UNCHANGED <<self_fields, call_vars, batch_vars, passage_vars>>

InitCalls ==
    /\ InitSelf
    /\ debugging \in BOOLEAN
    /\ NoCall /\ NoThreads /\ NoPassage
    /\ texts = ThreadedBatch
    /\ batch_pc = "idle" /\ completed = <<>> /\ yielded = 0 /\ events = <<>>

NextCalls ==
    \/ \E t \in Threads : ThreadCall(t)
    \/ \E t \in Threads : ThreadLoop(t)
    \/ \E t \in Threads : ThreadReturn(t)
    \/ extract_events_call
    \/ PipeWorker
    \/ ZipNext
    \/ extract_events_return

SpecCalls == InitCalls /\ [][NextCalls]_vars

----------------------------------------------------------------------------
(* Vocabulary of the claims about one is_event call.                       *)

Returned == outcome = "returned"

\* The parsed sentence the call ran on, and what it returned.
D == DocOf(arg_text, arg_doc)

R == The(result)

L == The(locals)

VerbPositions(doc) == { i \in 1..Len(doc) : doc[i].pos \in {"VERB", "AUX"} }

RootVerbPositions(doc) == { i \in VerbPositions(doc) : doc[i].dep = "ROOT" }

SingleRootVerb(doc) == Cardinality(RootVerbPositions(doc)) = 1

TheRoot(doc) == doc[CHOOSE i \in RootVerbPositions(doc) : TRUE]

\* The lemmas of the children of the (single) ROOT verb.
RootChildLemmas(doc) ==
    { doc[j].lemma : j \in { k \in 1..Len(doc) :
          k \notin RootVerbPositions(doc)
          /\ doc[k].head \in RootVerbPositions(doc) } }

\* Some token is a modal auxiliary whose surface text is among those lemmas.
ModalAttached(doc) ==
    \E j \in 1..Len(doc) :
        /\ doc[j].pos = "AUX" /\ doc[j].dep = "aux" /\ doc[j].tag = "MD"
        /\ doc[j].text \in RootChildLemmas(doc)

ActionRoot(doc) == TheRoot(doc).tag \in {"VBD", "VBG", "VBN", "VBP", "VBZ", "VB"}

StativeRoot(doc) == TheRoot(doc).lemma \in stative_verbs

IntentionRoot(doc) ==
    TheRoot(doc).lemma \in intention_or_goal_verbs \/ TheRoot(doc).tag = "VB"

----------------------------------------------------------------------------
(* Claims about one is_event call, checked under Spec.                     *)

C3_DebugGating ==
    Returned =>
        /\ (R.debug_info # None) <=> debugging
        /\ (debugging /\ VerbPositions(D) = {}) =>
              R.debug_info =
                 Some(<< <<>>, << <<"Action Verb", FALSE>>,
                                 <<"Intention or Goal", FALSE>>,
                                 <<"Modal Verb", FALSE>>,
                                 <<"Stative Verb", FALSE>> >> >>)

\* C4: every call on a token sequence returns; the label is event or
\* non_event, the sublabel is non-null iff the label is event, and a
\* sequence with no VERB/AUX token gives non_event with sublabel None.
C4_Totality ==
    /\ (outcome # "idle" /\ arg_doc # None) => Returned
    /\ Returned =>
          /\ R.label \in {"event", "non_event"}
          /\ (R.sublabel # NoSublabel) <=> (R.label = "event")
          /\ R.sublabel \in {NoSublabel, "past_or_current", "forecast_or_prediction"}
          /\ VerbPositions(D) = {} =>
                (R.label = "non_event" /\ R.sublabel = NoSublabel)

\* A non-empty sentence without any VERB/AUX token was classified.
C4_Witness ==
    /\ Returned /\ arg_doc # None
    /\ Len(D) > 0 /\ VerbPositions(D) = {}
    /\ R.label = "non_event"

\* C5: "I will go to the park." ('will' AUX/aux/MD, a child of the ROOT
\* 'go' of tag VB) is classified event/forecast_or_prediction.
C5_WillGo ==
    (Returned /\ arg_doc = None /\ arg_text = Some(<<"I", " ", "will", " ", "go">>))
        => (R.label = "event" /\ R.sublabel = "forecast_or_prediction")

RECURSIVE RootPass(_, _, _, _, _)
RootPass(st, doc, i, stative, intention) ==
    IF i > Len(doc) THEN st
    ELSE RootPass(IF IsVerbOrAux(doc[i])
                  THEN RootUpdate(st, doc, i, stative, intention) ELSE st,
                  doc, i + 1, stative, intention)

TwoPass(doc, stative, intention) ==
    LET st == RootPass(InitLocals, doc, 1, stative, intention)
    IN [st EXCEPT !.has_modal_verb =
            \E j \in 1..Len(doc) : IsAttachedModal(doc[j], st.root_children)]

\* C9: for a sentence with one ROOT VERB/AUX token, has_modal_verb ends
\* true exactly when some token is an AUX with dep aux, tag MD and text
\* among the lemmas of the root's children, before or after the root; the
\* nested scan gives the same flag, label and sublabel as the two passes.
C9_NestedScan ==
    (Returned /\ SingleRootVerb(D)) =>
        LET two == TwoPass(D, stative_verbs, intention_or_goal_verbs)
        IN /\ L.has_modal_verb = ModalAttached(D)
           /\ L.has_modal_verb = two.has_modal_verb
           /\ R.label = Decide(two).label
           /\ R.sublabel = Decide(two).sublabel

\* A modal standing before its root verb was found attached.
C9_Witness ==
    /\ Returned /\ SingleRootVerb(D)
    /\ L.has_modal_verb
    /\ \E j \in 1..Len(D) :
          /\ D[j].tag = "MD" /\ D[j].dep = "aux"
          /\ D[j].text \in RootChildLemmas(D)
          /\ \A r \in RootVerbPositions(D) : j < r

\* The feature strings of the VERB/AUX tokens, in token order.
VerbFeatures(doc) ==
    LET sel == SelectSeq(doc, IsVerbOrAux)
    IN [k \in 1..Len(sel) |-> verb_data(sel[k])]

----------------------------------------------------------------------------
(* Claims about extract_events, checked under SpecBatch.                   *)

\* C2: extract_events returns one result per input text; the result at
\* position i carries the i-th text and the label and sublabel of the
\* classification of the parse of that i-th text, in whatever order the
\* parser's workers finished the parses.
C2_OrderPreserved ==
    batch_pc = "done" =>
        /\ Len(events) = Len(texts)
        /\ \A i \in 1..Len(texts) :
              /\ events[i].text = texts[i]
              /\ events[i].label =
                    ClassifyDoc(Parse(texts[i]), stative_verbs,
                                intention_or_goal_verbs, debugging).label
              /\ events[i].sublabel =
                    ClassifyDoc(Parse(texts[i]), stative_verbs,
                                intention_or_goal_verbs, debugging).sublabel

\* A batch of differently classified texts was returned although the parse
\* of a later text finished before the parse of an earlier one.
C2_Witness ==
    /\ batch_pc = "done"
    /\ Len(texts) >= 2
    /\ completed[1] > completed[2]
    /\ events[1].label # events[2].label
    /\ events[1].text # events[2].text

----------------------------------------------------------------------------
(* Claims about split_passage and tag_passage, checked under SpecPassage.  *)

\* Whether is_event labels the sentence an event.
LabelledEvent(text) ==
    IsEventOfText(text, stative_verbs, intention_or_goal_verbs, debugging).label
        = "event"

RECURSIVE Joined(_, _)
\* The concatenation of the pieces from piece k on.
Joined(pieces, k) ==
    IF k > Len(pieces) THEN <<>> ELSE pieces[k] \o Joined(pieces, k + 1)

Wrapped(text) == <<"<EVENT>", " ">> \o text \o <<" ", "</EVENT>", " ">>

\* The text between its first and its last character that is no whitespace.
Trimmed(text) ==
    LET ink == { k \in 1..Len(text) : text[k] \notin {" ", "\n"} }
    IN IF ink = {} THEN <<>>
       ELSE SubSeq(text, CHOOSE k \in ink : \A m \in ink : k <= m,
                         CHOOSE k \in ink : \A m \in ink : k >= m)

\* C6 as stated: the tagged passage holds the sentences in their order,
\* each followed by a line break, a sentence wrapped in <EVENT> ... </EVENT>
\* iff is_event labels it event, and every non-event sentence with its text
\* unchanged.
C6_Unchanged ==
    passage_pc = "tagged" =>
        tagged = Joined([k \in 1..Len(sentences) |->
                            IF LabelledEvent(sentences[k])
                            THEN Wrapped(Trimmed(sentences[k])) \o <<"\n">>
                            ELSE sentences[k] \o <<"\n">>], 1)

\* C6 as amended: the same, with every sentence, event or not, rendered
\* with its leading and trailing whitespace stripped.
C6_Stripped ==
    passage_pc = "tagged" =>
        tagged = Joined([k \in 1..Len(sentences) |->
                            IF LabelledEvent(sentences[k])
                            THEN Wrapped(Trimmed(sentences[k])) \o <<"\n">>
                            ELSE Trimmed(sentences[k]) \o <<"\n">>], 1)

\* A passage was tagged that holds a forecast sentence, a past_or_current
\* sentence and a non-event sentence that begins or ends in whitespace.
C6_Witness ==
    /\ passage_pc = "tagged"
    /\ \E a, b, c \in 1..Len(df) :
          /\ df[a].label = "forecast"
          /\ df[b].label = "event"
          /\ df[c].label = "non_event" /\ Trimmed(df[c].text) # df[c].text
                /\ Trimmed(df[c].text) # <<>>

----------------------------------------------------------------------------
(* Claims about concurrent calls, checked under SpecCalls.                 *)

\* The result of running is_event alone on a parsed sentence.
Alone(doc) ==
    ClassifyDoc(doc, StativeVerbs, IntentionOrGoalVerbs, debugging)

\* Every finished call has the result of the same call run alone.
ResultsAsAlone ==
    /\ \A t \in Threads :
          frames[t].pc = "done" => The(frames[t].result) = Alone(frames[t].doc)
    /\ \A k \in 1..Len(events) :
          /\ events[k].label = Alone(Parse(texts[k])).label
          /\ events[k].sublabel = Alone(Parse(texts[k])).sublabel
          /\ events[k].debug_info = Alone(Parse(texts[k])).debug_info

\* C8: is_event and extract_events never modify stative_verbs,
\* intention_or_goal_verbs, nlp or debugging, and keep no state between
\* invocations: in every interleaving of calls on one classifier, each
\* call's result is the result of that call run alone on its sentence.
C8_Stateless ==
    /\ [][self_fields' = self_fields]_vars
    /\ []ResultsAsAlone

\* One thread has finished its second call while the other is in the
\* middle of its scan and extract_events is between two texts.
C8_Witness ==
    /\ frames["t1"].pc = "done" /\ frames["t1"].n = 2
    /\ The(frames["t1"].result).label = "non_event"
    /\ frames["t2"].pc = "loop" /\ frames["t2"].i = 3
    /\ frames["t2"].st.is_stative_verb
    /\ batch_pc = "zip" /\ yielded = 1

====
